---- MODULE Spec2Model ----
(***************************************************************************)
(* The colouring page: a canvas holding an RGBA image, and the asynchronous *)
(* scanline flood fill started by a click on it.                            *)
(*                                                                          *)
(* A byte array (Uint8ClampedArray) is a sequence; the byte at the          *)
(* zero-based offset off is element off + 1.  A JavaScript read outside the *)
(* array gives undefined, and arithmetic on undefined gives NaN, which      *)
(* compares false with everything: NaN stands for both.                     *)
(***************************************************************************)
EXTENDS Integers, Sequences, FiniteSets, TLC

(* ------------------------------ bounds -------------------------------- *)

\* Images of every width and height with up to MaxPixels pixels are loaded,
\* over every choice of pixel colours from Palette.
MaxPixels == 6
\* Side of the square image with a single odd pixel in the centre.
CaseSize == 5
\* The work list is followed up to this length.
MaxStack == 8
\* Spec and SpecCadence follow a fill for this many passes of its loop.
MaxPasses == 24
\* SpecLong loads the images with up to LongPixels pixels.
LongPixels == 2
\* the images on which handlers overlap have up to OverlapPixels pixels
OverlapPixels == 3
\* The directory of the image listing holds up to MaxFiles names.
MaxFiles == 2
\* Writes to one pixel are counted up to this number.
MaxWrites == 2

(* ------------------------------ inputs -------------------------------- *)

ColA == <<0, 0, 0, 255>>
ColB == <<0, 0, 2, 254>>
Palette == {ColA, ColB}

\* color.value as the number after the '#': #010100 and #030000
Colors == {65792, 196608}
Tolerances == {0, 1, 2}

(* --------------------------- pure functions --------------------------- *)

\* F(v), with v worked out once: a local of the code that is assigned once
\* and read many times
Local(v, F(_)) == CHOOSE r \in {F(x) : x \in {v}} : TRUE

NaN == -1

Abs(n) == IF n < 0 THEN 0 - n ELSE n

\* a[i] of a JavaScript array, zero-based
At(a, i) == IF i >= 0 /\ i < Len(a) THEN a[i + 1] ELSE NaN

\* the comparison as a strict one
AbsDiffLess(a, b, t) == a # NaN /\ b # NaN /\ Abs(a - b) < t

\* Math.abs(a - b) <= t
AbsDiffLeq(a, b, t) == a # NaN /\ b # NaN /\ Abs(a - b) <= t

Sub(a, b) == IF a = NaN \/ b = NaN THEN NaN ELSE Abs(a - b)

Add(a, b) == IF a = NaN \/ b = NaN THEN NaN ELSE a + b

\* v ?? 255
OrOpaque(v) == IF v = NaN THEN 255 ELSE v

colorDistance(a, b) ==
    Add(Add(Sub(At(a, 0), At(b, 0)), Sub(At(a, 1), At(b, 1))), Sub(At(a, 2), At(b, 2)))

\* the test as a strict one
AlreadyFilledStrict(t, rgb, tl) ==
    LET d == colorDistance(t, <<At(rgb, 0), At(rgb, 1), At(rgb, 2), 255>>)
    IN  d # NaN /\ d < tl

\* the test as: one of the three differences is within tol
AlreadyFilledAny(t, rgb, tl) ==
    \/ AbsDiffLeq(At(t, 0), At(rgb, 0), tl)
    \/ AbsDiffLeq(At(t, 1), At(rgb, 1), tl)
    \/ AbsDiffLeq(At(t, 2), At(rgb, 2), tl)

\* colorDistance(target, fillWithAlpha) <= tol
AlreadyFilled(t, rgb, tl) ==
    LET d == colorDistance(t, <<At(rgb, 0), At(rgb, 1), At(rgb, 2), 255>>)
    IN  d # NaN /\ d <= tl

hexToRgb(c) == <<(c \div 65536) % 256, (c \div 256) % 256, c % 256>>

offsetOf(x, y, w) == (y * w + x) * 4

\* the range test with the far edges taken as inside
OutOfRangeLate(x, y, w, h) == x < 0 \/ y < 0 \/ x > w \/ y > h

\* the range test without the test of the upper edge
OutOfRangeAbove(x, y, w, h) == x < 0 \/ x >= w \/ y >= h

OutOfRange(x, y, w, h) == x < 0 \/ y < 0 \/ x >= w \/ y >= h

matchOffset(d, t, tl, off) ==
    IF off < 0 \/ off + 3 >= Len(d) THEN FALSE
    ELSE /\ AbsDiffLeq(At(d, off), At(t, 0), tl)
         /\ AbsDiffLeq(At(d, off + 1), At(t, 1), tl)
         /\ AbsDiffLeq(At(d, off + 2), At(t, 2), tl)
         /\ AbsDiffLeq(OrOpaque(At(d, off + 3)), At(t, 3), tl)

\* the target sampled at the seed
SampleTarget(d, off) ==
    <<At(d, off), At(d, off + 1), At(d, off + 2), OrOpaque(At(d, off + 3))>>

\* the expansion to the left that does not stop at column 0
RECURSIVE ExpandLeftWrap(_, _, _, _, _)
ExpandLeftWrap(d, t, tl, xl, off) ==
    IF matchOffset(d, t, tl, off)
    THEN ExpandLeftWrap(d, t, tl, xl - 1, off - 4)
    ELSE xl + 1

RECURSIVE ExpandLeft(_, _, _, _, _)
ExpandLeft(d, t, tl, xl, off) ==
    IF xl >= 0 /\ matchOffset(d, t, tl, off)
    THEN ExpandLeft(d, t, tl, xl - 1, off - 4)
    ELSE xl + 1

\* the expansion to the right that never takes the last column
RECURSIVE ExpandRightShort(_, _, _, _, _, _)
ExpandRightShort(d, t, tl, xr, off, w) ==
    IF xr < w - 1 /\ matchOffset(d, t, tl, off)
    THEN ExpandRightShort(d, t, tl, xr + 1, off + 4, w)
    ELSE xr - 1

RECURSIVE ExpandRight(_, _, _, _, _, _)
ExpandRight(d, t, tl, xr, off, w) ==
    IF xr < w /\ matchOffset(d, t, tl, off)
    THEN ExpandRight(d, t, tl, xr + 1, off + 4, w)
    ELSE xr - 1

\* the offsets that the expansion to the left hands to matchOffset
RECURSIVE LeftTested(_, _, _, _, _)
LeftTested(d, t, tl, xl, off) ==
    IF xl >= 0
    THEN {off} \cup (IF matchOffset(d, t, tl, off)
                     THEN LeftTested(d, t, tl, xl - 1, off - 4)
                     ELSE {})
    ELSE {}

\* the offsets that the expansion to the right hands to matchOffset
RECURSIVE RightTested(_, _, _, _, _, _)
RightTested(d, t, tl, xr, off, w) ==
    IF xr < w
    THEN {off} \cup (IF matchOffset(d, t, tl, off)
                     THEN RightTested(d, t, tl, xr + 1, off + 4, w)
                     ELSE {})
    ELSE {}

\* the offsets of the pixels of [xl..xr] on a row: those that the fill of
\* the segment writes, and those that the scan of a neighbouring row tests
SegmentOffsets(xl, xr, row, w) == {offsetOf(xi, row, w) : xi \in xl..xr}

\* the pixel values after the segment [xi..xr] of row y is filled
RECURSIVE FillSegment(_, _, _, _, _, _)
FillSegment(d, rgb, xi, xr, y, w) ==
    IF xi > xr THEN d
    ELSE LET o == offsetOf(xi, y, w)
         IN  FillSegment([d EXCEPT ![o + 1] = At(rgb, 0),
                                   ![o + 2] = At(rgb, 1),
                                   ![o + 3] = At(rgb, 2),
                                   ![o + 4] = 255],
                         rgb, xi + 1, xr, y, w)

\* the end of the run of matching pixels of a row that starts at xi
RECURSIVE RunEnd(_, _, _, _, _, _, _)
RunEnd(d, t, tl, xi, xr, row, w) ==
    IF xi <= xr /\ matchOffset(d, t, tl, offsetOf(xi, row, w))
    THEN RunEnd(d, t, tl, xi + 1, xr, row, w)
    ELSE xi

\* the scan that pushes the first pixel of each run
RECURSIVE ScanRowLeft(_, _, _, _, _, _, _)
ScanRowLeft(d, t, tl, xi, xr, row, w) ==
    IF xi > xr THEN <<>>
    ELSE IF matchOffset(d, t, tl, offsetOf(xi, row, w))
         THEN Local(RunEnd(d, t, tl, xi, xr, row, w),
                    LAMBDA e : <<<<xi, row>>>> \o ScanRowLeft(d, t, tl, e, xr, row, w))
         ELSE ScanRowLeft(d, t, tl, xi + 1, xr, row, w)

\* the coordinates pushed while a neighbouring row is checked over [xi..xr]
RECURSIVE ScanRow(_, _, _, _, _, _, _)
ScanRow(d, t, tl, xi, xr, row, w) ==
    IF xi > xr THEN <<>>
    ELSE IF matchOffset(d, t, tl, offsetOf(xi, row, w))
         THEN Local(RunEnd(d, t, tl, xi, xr, row, w),
                    LAMBDA e : <<<<(xi + (e - 1)) \div 2, row>>>>
                               \o ScanRow(d, t, tl, e, xr, row, w))
         ELSE ScanRow(d, t, tl, xi + 1, xr, row, w)

PushAbove(d, t, tl, xl, xr, y, w) ==
    IF y - 1 >= 0 THEN ScanRow(d, t, tl, xl, xr, y - 1, w) ELSE <<>>

\* the scan of the row below that stops one row early
PushBelowEarly(d, t, tl, xl, xr, y, w, h) ==
    IF y + 1 < h - 1 THEN ScanRow(d, t, tl, xl, xr, y + 1, w) ELSE <<>>

PushBelow(d, t, tl, xl, xr, y, w, h) ==
    IF y + 1 < h THEN ScanRow(d, t, tl, xl, xr, y + 1, w) ELSE <<>>

\* the mask 0x1FF
YieldMaskShort == 512 - 1

\* the mask 0x3FF
YieldMask == 1023

\* a & b, bit by bit from the bit of value p upwards
RECURSIVE BitAndFrom(_, _, _)
BitAndFrom(a, b, p) ==
    IF p > a \/ p > b THEN 0
    ELSE ((a \div p) % 2) * ((b \div p) % 2) * p + BitAndFrom(a, b, 2 * p)

BitAnd(a, b) == BitAndFrom(a, b, 1)

\* the test turned round
YieldDueEarly(n, mask) == BitAnd(n, mask) # 0

\* (iterations & mask) === 0
YieldDue(n, mask) == BitAnd(n, mask) = 0

\* The counters are kept below twice the yield period: the code reads no
\* more of them than their low bits. From there a counter goes back by one
\* period, so that a count below the period is a count that never reached
\* it.
CounterWrap == 2 * (YieldMask + 1)
Counter(n) == IF n >= CounterWrap THEN n - (YieldMask + 1) ELSE n

\* One pass of the loop body over a popped coordinate: the span found, the
\* pixel values after it is filled and the work list after the pushes.
Pass(d, t, tl, rgb, st, w, h) ==
    LET top  == st[Len(st)]
        rest == SubSeq(st, 1, Len(st) - 1)
        x    == top[1]
        y    == top[2]
    IN  IF OutOfRange(x, y, w, h)
        THEN [skip |-> TRUE, xl |-> 0, xr |-> -1, y |-> y, data |-> d, stack |-> rest]
        ELSE Local(ExpandLeft(d, t, tl, x, offsetOf(x, y, w)), LAMBDA xl :
             Local(ExpandRight(d, t, tl, x, offsetOf(x, y, w), w), LAMBDA xr :
             Local(FillSegment(d, rgb, xl, xr, y, w), LAMBDA nd :
                [skip |-> FALSE, xl |-> xl, xr |-> xr, y |-> y, data |-> nd,
                 stack |-> rest \o PushAbove(nd, t, tl, xl, xr, y, w)
                                \o PushBelow(nd, t, tl, xl, xr, y, w, h)])))

NoWrites(w, h) == [p \in 1..(w * h) |-> 0]

\* the write counts after the segment [xi..xr] of row y is filled
RECURSIVE Counted(_, _, _, _, _)
Counted(wr, xi, xr, y, w) ==
    IF xi > xr THEN wr
    ELSE LET p == y * w + xi + 1
         IN  Counted([wr EXCEPT ![p] = IF wr[p] < MaxWrites THEN wr[p] + 1 ELSE wr[p]],
                     xi + 1, xr, y, w)

\* The passes of the loop from the work list st on, never suspended: whether
\* the work list runs empty within fuel passes, the pixel values and the
\* write counts then.
RECURSIVE Passes(_, _, _, _, _, _, _, _, _)
Passes(d, st, wr, t, tl, rgb, w, h, fuel) ==
    IF st = <<>> THEN [returned |-> TRUE, data |-> d, writes |-> wr]
    ELSE IF fuel = 0 THEN [returned |-> FALSE, data |-> d, writes |-> wr]
    ELSE Local(Pass(d, t, tl, rgb, st, w, h), LAMBDA r :
         Local(Counted(wr, r.xl, r.xr, r.y, w), LAMBDA nwr :
            Passes(r.data, r.stack, nwr, t, tl, rgb, w, h, fuel - 1)))

\* floodFillScanline(x, y, rgb, tl) on the canvas img as one uninterrupted
\* call, followed for fuel passes
FloodFill(img, x, y, rgb, tl, w, h, fuel) ==
    IF OutOfRange(x, y, w, h)
    THEN [returned |-> TRUE, data |-> img, writes |-> NoWrites(w, h)]
    ELSE Local(SampleTarget(img, offsetOf(x, y, w)), LAMBDA t :
            IF AlreadyFilled(t, rgb, tl)
            THEN [returned |-> TRUE, data |-> img, writes |-> NoWrites(w, h)]
            ELSE Passes(img, <<<<x, y>>>>, NoWrites(w, h), t, tl, rgb, w, h, fuel))

(* ------------------------- the image listing -------------------------- *)

\* A file name is the sequence of its characters.
UpperCase == <<"A", "B", "C", "D", "E", "F", "G", "H", "I", "J", "K", "L", "M",
               "N", "O", "P", "Q", "R", "S", "T", "U", "V", "W", "X", "Y", "Z">>
LowerCase == <<"a", "b", "c", "d", "e", "f", "g", "h", "i", "j", "k", "l", "m",
               "n", "o", "p", "q", "r", "s", "t", "u", "v", "w", "x", "y", "z">>

\* String.prototype.toLowerCase that leaves the name as it is
toLowerCaseNone(name) == name

\* String.prototype.toLowerCase
toLowerCase(name) ==
    [i \in 1..Len(name) |->
        IF \E k \in 1..26 : UpperCase[k] = name[i]
        THEN LowerCase[CHOOSE k \in 1..26 : UpperCase[k] = name[i]]
        ELSE name[i]]

\* the place of the last "." of a name, 0 when it has none
LastDot(name) ==
    IF \E i \in 1..Len(name) : name[i] = "."
    THEN CHOOSE i \in 1..Len(name) :
            name[i] = "." /\ \A j \in (i + 1)..Len(name) : name[j] # "."
    ELSE 0

\* path.extname of a name without separators: from the last "." on; empty
\* when there is no ".", when the only "." is the first character, and for
\* the name ".."
extname(name) ==
    LET dot == LastDot(name)
    IN  IF dot = 0 THEN <<>>
        ELSE IF \A j \in 1..(dot - 1) : name[j] = "."
             THEN IF dot = 1 \/ (dot = 2 /\ Len(name) = 2)
                  THEN <<>>
                  ELSE SubSeq(name, dot, Len(name))
             ELSE SubSeq(name, dot, Len(name))

imageExtensions ==
    << <<".", "p", "n", "g">>, <<".", "j", "p", "g">>, <<".", "j", "p", "e", "g">>,
       <<".", "g", "i", "f">>, <<".", "w", "e", "b", "p">>, <<".", "s", "v", "g">> >>

\* imageExtensions.includes(ext)
includes(list, ext) == \E i \in 1..Len(list) : list[i] = ext

\* files.filter(...): the names with an image extension, in their order
RECURSIVE filterImages(_)
filterImages(files) ==
    IF files = <<>> THEN <<>>
    ELSE (IF includes(imageExtensions, toLowerCase(extname(Head(files))))
          THEN <<Head(files)>> ELSE <<>>) \o filterImages(Tail(files))

\* no request to the listing is made
NoDirectory == [ok |-> TRUE, files |-> <<>>, message |-> ""]
NoResponse == [none |-> TRUE]

(* ------------------------------- state -------------------------------- *)

VARIABLES
    width, height,      \* canvas.width, canvas.height
    canvas,             \* the pixels of the canvas
    originalImageData,  \* the pixels stored for reset
    color, tolerance,   \* the chosen colour and the slider
    pc,                 \* "idle": no fill in flight; "loop": at the loop test;
                        \* "await": suspended on the timer
    x0, y0, fillRgb, tol,             \* arguments of the fill
    data, target, stack, iterations,  \* its locals
    yieldMask,          \* the mask of the yield test
    popped,             \* how many coordinates the fill has popped
    ret,                \* how the last fill returned: "none", "range",
                        \* "same" or "written"
    before,             \* the canvas when the last fill was called
    writes,             \* per pixel, how often the last fill wrote it
    directory,          \* what readdir gives the image-listing handler
    response            \* what the image-listing handler has returned

vars == <<width, height, canvas, originalImageData, color, tolerance, pc,
          x0, y0, fillRgb, tol, data, target, stack, iterations, yieldMask,
          popped, ret, before, writes, directory, response>>

\* the bytes of a w x h image whose pixel p has colour f[p]
ImageOf(w, h, f) == [i \in 1..(w * h * 4) |-> f[(i - 1) \div 4][((i - 1) % 4) + 1]]

CaseImage ==
    ImageOf(CaseSize, CaseSize,
            [p \in 0..(CaseSize * CaseSize - 1) |->
                IF p = (CaseSize \div 2) * CaseSize + (CaseSize \div 2) THEN ColB ELSE ColA])

\* loadImage has drawn the image and stored it for reset
Loaded(w, h, img, mask) ==
    /\ width = w /\ height = h
    /\ yieldMask = mask
    /\ popped = 0
    /\ canvas = img
    /\ originalImageData = img
    /\ color \in Colors
    /\ tolerance \in Tolerances
    /\ pc = "idle"
    /\ x0 = 0 /\ y0 = 0 /\ fillRgb = <<>> /\ tol = 0
    /\ data = <<>> /\ target = <<>> /\ stack = <<>> /\ iterations = 0
    /\ ret = "none"
    /\ before = img
    /\ writes = NoWrites(w, h)
    /\ directory = NoDirectory
    /\ response = NoResponse

\* the images with up to n pixels, each with its width and height
Images(n) ==
    UNION {{<<s[1], s[2], ImageOf(s[1], s[2], f)>> : f \in [0..(s[1] * s[2] - 1) -> Palette]} :
           s \in {t \in (1..n) \X (1..n) : t[1] * t[2] <= n}}

Init ==
    \/ \E i \in Images(MaxPixels) : Loaded(i[1], i[2], i[3], YieldMask)
    \/ Loaded(CaseSize, CaseSize, CaseImage, YieldMask)

\* the same images under other yield periods
Masks == {0, 1, YieldMask}

InitCadence ==
    \E mask \in Masks :
        \/ \E i \in Images(MaxPixels) : Loaded(i[1], i[2], i[3], mask)
        \/ Loaded(CaseSize, CaseSize, CaseImage, mask)

InitLong == \E i \in Images(LongPixels) : Loaded(i[1], i[2], i[3], YieldMask)

(* ------------------------------ actions ------------------------------- *)

\* floodFillScanline(x, y, rgb, tl) up to the first test of the loop. This is
\* the fill that is followed pass by pass; a click that comes while it is
\* suspended is OtherClick.
floodFillScanline(x, y, rgb, tl) ==
    /\ pc = "idle"
    /\ x0' = x /\ y0' = y
    /\ fillRgb' = rgb
    /\ tol' = tl
    /\ before' = canvas
    /\ writes' = NoWrites(width, height)
    /\ iterations' = 0
    /\ popped' = 0
    /\ IF OutOfRange(x, y, width, height)
       THEN /\ ret' = "range"
            /\ data' = <<>> /\ target' = <<>> /\ stack' = <<>>
            /\ pc' = "idle"
       ELSE LET t == SampleTarget(canvas, offsetOf(x, y, width))
            IN  /\ data' = canvas
                /\ target' = t
                /\ IF AlreadyFilled(t, rgb, tl)
                   THEN /\ ret' = "same"
                        /\ stack' = <<>>
                        /\ pc' = "idle"
                   ELSE /\ ret' = "none"
                        /\ stack' = <<<<x, y>>>>
                        /\ pc' = "loop"
    /\ UNCHANGED <<directory, response, width, height, canvas, originalImageData, color, tolerance,
                   yieldMask>>

\* handleClick: the fill at the clicked pixel with the chosen colour and the
\* tolerance of the slider
handleClick(x, y) == floodFillScanline(x, y, hexToRgb(color), tolerance)

\* the pass that also puts the buffer on the canvas
LoopPassShown ==
    /\ pc = "loop"
    /\ stack # <<>>
    /\ \E r \in {Pass(data, target, tol, fillRgb, stack, width, height)} :
       \E n \in {IF r.skip THEN iterations ELSE Counter(iterations + 1)} :
           /\ Len(r.stack) <= MaxStack
           /\ data' = r.data
           /\ canvas' = r.data
           /\ stack' = r.stack
           /\ iterations' = n
           /\ popped' = Counter(popped + 1)
           /\ writes' = Counted(writes, r.xl, r.xr, r.y, width)
           /\ pc' = IF ~r.skip /\ YieldDue(n, yieldMask) THEN "await" ELSE "loop"
    /\ UNCHANGED <<directory, response, width, height, originalImageData, color, tolerance,
                   x0, y0, fillRgb, tol, target, yieldMask, ret, before>>

\* one pass of the loop, up to the next test of the loop or the timer
LoopPass ==
    /\ pc = "loop"
    /\ stack # <<>>
    /\ \E r \in {Pass(data, target, tol, fillRgb, stack, width, height)} :
       \E n \in {IF r.skip THEN iterations ELSE Counter(iterations + 1)} :
           /\ Len(r.stack) <= MaxStack
           /\ data' = r.data
           /\ stack' = r.stack
           /\ iterations' = n
           /\ popped' = Counter(popped + 1)
           /\ writes' = Counted(writes, r.xl, r.xr, r.y, width)
           /\ pc' = IF ~r.skip /\ YieldDue(n, yieldMask) THEN "await" ELSE "loop"
    /\ UNCHANGED <<directory, response, width, height, canvas, originalImageData, color, tolerance,
                   x0, y0, fillRgb, tol, target, yieldMask, ret, before>>

\* the resumption that reads the canvas anew
ResumeReread ==
    /\ pc = "await"
    /\ pc' = "loop"
    /\ data' = canvas
    /\ UNCHANGED <<directory, response, width, height, canvas, originalImageData, color, tolerance,
                   x0, y0, fillRgb, tol, target, stack, iterations,
                   yieldMask, popped, ret, before, writes>>

\* the timer fires and the fill goes on
Resume ==
    /\ pc = "await"
    /\ pc' = "loop"
    /\ UNCHANGED <<directory, response, width, height, canvas, originalImageData, color, tolerance,
                   x0, y0, fillRgb, tol, data, target, stack, iterations,
                   yieldMask, popped, ret, before, writes>>

\* the work list is empty: putImageData and return
WriteBack ==
    /\ pc = "loop"
    /\ stack = <<>>
    /\ canvas' = data
    /\ ret' = "written"
    /\ pc' = "idle"
    /\ UNCHANGED <<directory, response, width, height, originalImageData, color, tolerance,
                   x0, y0, fillRgb, tol, data, target, stack, iterations,
                   yieldMask, popped, before, writes>>

\* resetImage: the stored image is put back on the canvas. A handler runs
\* only while no other is between two awaits.
resetImage ==
    /\ pc # "loop"
    /\ canvas' = originalImageData
    /\ UNCHANGED <<directory, response, width, height, originalImageData, color, tolerance, pc,
                   x0, y0, fillRgb, tol, data, target, stack, iterations,
                   yieldMask, popped, ret, before, writes>>

\* the number of passes a fill makes before its first suspension is due
Quiet(mask) ==
    CHOOSE n \in 0..MaxPasses :
        /\ \A k \in 1..n : ~YieldDue(k, mask)
        /\ n = MaxPasses \/ YieldDue(n + 1, mask)

\* A click while the followed fill is suspended: a second floodFillScanline
\* reads the canvas as it is now. It is followed when it returns before its
\* own first suspension; it has then written back before any other handler runs.
OtherClick(x, y) ==
    /\ pc = "await"
    /\ \E r \in {FloodFill(canvas, x, y, hexToRgb(color), tolerance,
                            width, height, Quiet(yieldMask))} :
           /\ r.returned
           /\ canvas' = r.data
    /\ UNCHANGED <<directory, response, width, height, originalImageData, color, tolerance, pc,
                   x0, y0, fillRgb, tol, data, target, stack, iterations,
                   yieldMask, popped, ret, before, writes>>

\* The clicks: every pixel of the canvas, and one position beyond each edge.
Seeds(w, h) ==
    {s \in (-1..w) \X (-1..h) : ~OutOfRange(s[1], s[2], w, h) \/ s[1] = 0 \/ s[2] = 0}

\* the first click on the loaded image
Click == ret = "none" /\ \E s \in Seeds(width, height) : handleClick(s[1], s[2])

\* a further click on the same position
ClickAgain == ret # "none" /\ handleClick(x0, y0)

\* the fill is still followed
Followed == iterations < MaxPasses

FollowedPass == Followed /\ LoopPass

Next == Click \/ ClickAgain \/ FollowedPass \/ WriteBack

Spec == Init /\ [][Next]_vars

NextCadence == Click \/ ClickAgain \/ FollowedPass \/ Resume \/ WriteBack

SpecCadence == InitCadence /\ [][NextCadence]_vars

NextLong == Click \/ ClickAgain \/ LoopPass \/ Resume \/ WriteBack

SpecLong == InitLong /\ [][NextLong]_vars

\* the loop runs on while the call is on the stack, and the timer fires
FairLong == SpecLong /\ WF_vars(LoopPass) /\ WF_vars(Resume) /\ WF_vars(WriteBack)

\* the handlers that run while a fill is suspended
InitOverlap ==
    \E mask \in Masks \ {YieldMask} :
        \E i \in Images(OverlapPixels) : Loaded(i[1], i[2], i[3], mask)

Overlap == \E s \in Seeds(width, height) : OtherClick(s[1], s[2])

NextOverlap ==
    Click \/ ClickAgain \/ FollowedPass \/ Resume \/ WriteBack \/ resetImage \/ Overlap

SpecOverlap == InitOverlap /\ [][NextOverlap]_vars

\* floodFillScanline called with a tolerance that the slider cannot give
OutTolerances == {0 - 1, 255 + 1}

CallOutside ==
    /\ ret = "none"
    /\ \E s \in Seeds(width, height) : \E tl \in OutTolerances :
          floodFillScanline(s[1], s[2], hexToRgb(color), tl)

InitCall == \E i \in Images(OverlapPixels) : Loaded(i[1], i[2], i[3], YieldMask)

NextCall == CallOutside \/ FollowedPass \/ WriteBack

SpecCall == InitCall /\ [][NextCall]_vars

\* every handler, under the yield period of the code
NextAtomic ==
    Click \/ ClickAgain \/ LoopPass \/ Resume \/ WriteBack \/ resetImage \/ Overlap

SpecAtomic == InitLong /\ [][NextAtomic]_vars

\* The names that the directory may hold.
FileNames ==
    { <<"a", ".", "p", "n", "g">>, <<"a", ".", "P", "N", "G">>,
      <<"b", ".", "J", "p", "g">>, <<"c", ".", "j", "p", "e", "g">>,
      <<"d", ".", "g", "i", "f">>, <<"e", ".", "W", "E", "B", "P">>,
      <<"f", ".", "s", "v", "g">>, <<".", "p", "n", "g">>,
      <<".", ".", "g", "i", "f">>, <<"a", ".", "t", "x", "t">>,
      <<"p", "n", "g">>, <<"a", ".", "p", "n", "g", ".", "t", "x", "t">>,
      <<"a", ".", "b", ".", "S", "V", "G">>, <<"a", ".", "p", "n", "g", "x">>,
      <<"a", ".">>, <<".", ".">> }

\* the listings of up to n names
RECURSIVE Listings(_)
Listings(n) ==
    IF n = 0 THEN {<<>>}
    ELSE Listings(n - 1) \cup {Append(l, f) : l \in {k \in Listings(n - 1) : Len(k) = n - 1},
                                              f \in FileNames}

\* what fs.promises.readdir gives: the names, or an error with its message
Directories ==
    {[ok |-> TRUE, files |-> l, message |-> ""] : l \in Listings(MaxFiles)}
      \cup {[ok |-> FALSE, files |-> <<>>, message |-> "ENOENT"]}

\* the handler of the image listing
listImages ==
    /\ response = NoResponse
    /\ response' = IF directory.ok
                   THEN [images |-> filterImages(directory.files)]
                   ELSE [error |-> "Failed to read directory",
                         details |-> directory.message]
    /\ UNCHANGED <<directory, width, height, canvas, originalImageData, color,
                   tolerance, pc, x0, y0, fillRgb, tol, data, target, stack,
                   iterations, yieldMask, popped, ret, before, writes>>

InitListing ==
    /\ directory \in Directories
    /\ response = NoResponse
    /\ width = 1 /\ height = 1
    /\ yieldMask = YieldMask
    /\ popped = 0
    /\ canvas = ColA
    /\ originalImageData = ColA
    /\ color \in Colors
    /\ tolerance \in Tolerances
    /\ pc = "idle"
    /\ x0 = 0 /\ y0 = 0 /\ fillRgb = <<>> /\ tol = 0
    /\ data = <<>> /\ target = <<>> /\ stack = <<>> /\ iterations = 0
    /\ ret = "none"
    /\ before = ColA
    /\ writes = NoWrites(1, 1)

NextListing == listImages

SpecListing == InitListing /\ [][NextListing]_vars

(* ------------------------------ claims -------------------------------- *)

Pixels == 0..(width * height - 1)

\* the colour of pixel p in the bytes d
PixelAt(d, p) == <<d[4 * p + 1], d[4 * p + 2], d[4 * p + 3], d[4 * p + 4]>>

SeedPixel == y0 * width + x0

\* the fill colour with alpha 255
FillColour == <<fillRgb[1], fillRgb[2], fillRgb[3], 255>>

\* the pixels the last fill has written
Written == {p \in Pixels : writes[p + 1] > 0}

\* a fill has been called and its seed was on the canvas
Called == ret # "none" \/ pc # "idle"
SeedInside == x0 >= 0 /\ y0 >= 0 /\ x0 < width /\ y0 < height

Adjacent(p, q) ==
    \/ q = p - width
    \/ q = p + width
    \/ q = p - 1 /\ p % width # 0
    \/ q = p + 1 /\ q % width # 0

\* the pixels of M that a path of adjacent pixels of M joins to S
RECURSIVE Connected(_, _)
Connected(S, M) ==
    LET N == S \cup {q \in M : \E p \in S : Adjacent(p, q)}
    IN  IF N = S THEN S ELSE Connected(N, M)

\* the 4-connected region of the seed made of the pixels that had exactly
\* the colour of the seed when the fill was called
ExactRegion ==
    Connected({SeedPixel},
              {p \in Pixels : PixelAt(before, p) = PixelAt(before, SeedPixel)})

\* the model follows this fill to its end
NotCutOff ==
    pc = "loop" /\ stack # <<>> =>
        /\ Followed
        /\ Len(Pass(data, target, tol, fillRgb, stack, width, height).stack) <= MaxStack

\* C1: at tolerance 0, a fill from a seed on the canvas with a colour other
\* than the seed's is carried out, and when it has returned exactly the
\* pixels of the 4-connected region of the seed's exact colour are written,
\* each once and to the fill colour with alpha 255, while every other pixel
\* keeps its four channels; on the square image with one odd pixel in the
\* centre a fill from (0,0) writes all pixels but the centre.
C1_ExactRegionFilled ==
    (Called /\ SeedInside /\ tol = 0
        /\ SubSeq(PixelAt(before, SeedPixel), 1, 3) # fillRgb) =>
        /\ ret \notin {"same", "range"}
        /\ NotCutOff
        /\ (pc = "idle" =>
              /\ ret = "written"
              /\ Written = ExactRegion
              /\ \A p \in Pixels :
                    IF p \in ExactRegion
                    THEN PixelAt(canvas, p) = FillColour /\ writes[p + 1] = 1
                    ELSE PixelAt(canvas, p) = PixelAt(before, p) /\ writes[p + 1] = 0
              /\ (before = CaseImage /\ x0 = 0 /\ y0 = 0 =>
                    /\ Cardinality(Written) = CaseSize * CaseSize - 1
                    /\ PixelAt(canvas, (CaseSize \div 2) * CaseSize + (CaseSize \div 2)) = ColB))

\* the fill from (0,0) on the square image has returned, at tolerance 0
C1_Witness ==
    /\ pc = "idle" /\ ret = "written" /\ tol = 0
    /\ before = CaseImage /\ x0 = 0 /\ y0 = 0
    /\ Cardinality(Written) = CaseSize * CaseSize - 1

\* C3: a fill whose seed is off the canvas returns at once: it creates no
\* buffer and no work list, writes no pixel and leaves the canvas as it was.
C3_OutOfRangeNoOp ==
    (x0 < 0 \/ y0 < 0 \/ x0 >= width \/ y0 >= height) =>
        /\ pc = "idle" /\ ret = "range"
        /\ data = <<>> /\ stack = <<>>
        /\ Written = {}
        /\ canvas = before

\* a click beyond the right or the lower edge has returned
C3_Witness ==
    /\ pc = "idle" /\ ret = "range"
    /\ (x0 = width \/ y0 = height)

\* every pixel had the colour of the seed when the fill was called
Uniform == \A p \in Pixels : PixelAt(before, p) = PixelAt(before, SeedPixel)

\* the fill colour is not the colour of the seed
FillDiffers == SubSeq(PixelAt(before, SeedPixel), 1, 3) # fillRgb

\* one of R, G, B of the fill colour is further than t from the seed's
FillBeyond(t) == \E c \in 1..3 : Abs(fillRgb[c] - PixelAt(before, SeedPixel)[c]) > t

AllFilled ==
    /\ Cardinality(Written) = width * height
    /\ \A p \in Pixels : PixelAt(canvas, p) = FillColour

\* C2 as stated: on an image of one colour, a fill with another colour from
\* a seed on the canvas has, when it has returned, changed all width*height
\* pixels to the fill colour with alpha 255, whatever the tolerance.
C2_AnyToleranceFillsAll ==
    (Called /\ SeedInside /\ Uniform /\ FillDiffers /\ pc = "idle") => AllFilled

\* C2 amended: the same for every tolerance that one of the channels R, G, B
\* of the fill colour exceeds in its distance from the image's colour; the
\* fill is then carried out and writes every pixel once.
C2_UniformFilled ==
    (Called /\ SeedInside /\ Uniform /\ FillBeyond(tol)) =>
        /\ ret \notin {"same", "range"}
        /\ NotCutOff
        /\ (pc = "idle" =>
              /\ ret = "written"
              /\ AllFilled
              /\ \A p \in Pixels : writes[p + 1] = 1)

\* an image of one colour and several pixels is filled at a tolerance above 0
C2_Witness ==
    /\ pc = "idle" /\ ret = "written" /\ tol > 0
    /\ Uniform /\ width > 1 /\ height > 1
    /\ AllFilled

\* the rule `matches` : every channel within the tolerance
Matches(pixel, ref, t) == \A c \in 1..4 : Abs(pixel[c] - ref[c]) <= t

\* C4: when the fill colour with alpha 255 matches the target sampled at the
\* seed within the tolerance, the fill is a no-op: it returns at once,
\* writes no pixel and leaves the canvas as it was.
C4_MatchingFillIsNoOp ==
    (Called /\ SeedInside /\ Matches(FillColour, PixelAt(before, SeedPixel), tol)) =>
        /\ pc = "idle" /\ ret = "same"
        /\ Written = {}
        /\ canvas = before

\* C5: during one fill no pixel is written more than once.
C5_WrittenAtMostOnce == \A p \in Pixels : writes[p + 1] <= 1

\* the model stops following this fill: its work list grows too long
CutOff ==
    /\ pc = "loop" /\ stack # <<>>
    /\ Len(Pass(data, target, tol, fillRgb, stack, width, height).stack) > MaxStack

\* C6: every fill that has entered its loop eventually finds the work list
\* empty, writes back and returns (as far as the model follows it).
C6_EveryFillReturns == (pc = "loop") ~> ((pc = "idle" /\ ret = "written") \/ CutOff)

\* C8: when a fill has written back, a second fill with the same seed,
\* colour and tolerance returns at once as a no-op: it writes no pixel and
\* the canvas stays the result of the first fill.
C8_SecondFillNoOp ==
    [][(pc = "idle" /\ ret = "written"
          /\ x0' = x0 /\ y0' = y0 /\ fillRgb' = fillRgb /\ tol' = tol) =>
            /\ pc' = "idle" /\ ret' = "same"
            /\ canvas' = canvas
            /\ writes' = NoWrites(width, height)]_vars

\* the second fill has returned on the canvas the first one changed
C8_Witness ==
    /\ pc = "idle" /\ ret = "same"
    /\ before = canvas /\ canvas # originalImageData
    /\ PixelAt(canvas, SeedPixel) = FillColour

\* C10: a pass of the loop ends in the suspension exactly when the number
\* of popped coordinates is a multiple of 1024, nothing else suspends the
\* fill, and the resumption goes back to the loop with the work list, the
\* target, the buffer and the counters as they were.
C10_YieldEvery1024 ==
    [][/\ (pc = "loop" /\ pc' # "idle") => (pc' = "await" <=> popped' % 1024 = 0)
       /\ pc' = "await" => pc = "loop"
       /\ pc = "await" =>
             /\ pc' = "loop"
             /\ UNCHANGED <<stack, target, data, iterations, popped, writes,
                            x0, y0, fillRgb, tol, before>>]_vars

\* the fill has been resumed after its 1024th pop and has gone on
C10_Witness == pc = "loop" /\ popped = 1024 + 1 /\ stack # <<>>

\* the pixels a run of FloodFill has written
WrittenIn(run) == {p \in Pixels : run.writes[p + 1] > 0}

\* the last fill, called again on the canvas it was called on, at tolerance t
AtTolerance(t) == FloodFill(before, x0, y0, fillRgb, t, width, height, MaxPasses)

\* C7 as stated: the pixels a fill has written are among the pixels that
\* the fill of the same canvas from the same seed with the same colour
\* writes, when it returns, at any greater tolerance.
C7_MonotoneInTolerance ==
    (pc = "idle" /\ ret # "none" /\ SeedInside) =>
        \A t \in Tolerances :
            t > tol =>
                LET run == AtTolerance(t)
                IN  run.returned => Written \subseteq WrittenIn(run)

\* C7 amended: the same for every greater tolerance that one of the channels
\* R, G, B of the fill colour exceeds in its distance from the target; the
\* fill at that tolerance returns, and it writes whatever the fill at the
\* smaller tolerance has written.
C7_MonotoneWhileFillBeyond ==
    (Called /\ SeedInside) =>
        \A t \in Tolerances :
            (t > tol /\ FillBeyond(t)) =>
                LET run == AtTolerance(t)
                IN  /\ run.returned
                    /\ Written \subseteq WrittenIn(run)

\* a fill has written some but not all of the pixels that the fill at a
\* greater tolerance writes
C7_Witness ==
    /\ pc = "idle" /\ ret = "written" /\ Written # {}
    /\ \E t \in Tolerances :
          /\ t > tol /\ FillBeyond(t)
          /\ Written # WrittenIn(AtTolerance(t))

\* C9: under every yield period, a fill that has returned leaves the canvas
\* and the write counts that the uninterrupted call gives; so they are the
\* same under any two periods.
C9_CadenceFree ==
    (pc = "idle" /\ ret # "none") =>
        LET run == FloodFill(before, x0, y0, fillRgb, tol, width, height, MaxPasses)
        IN  /\ run.returned
            /\ canvas = run.data
            /\ writes = run.writes

\* a fill that was suspended after every pass has written back a region of
\* several rows
C9_Witness ==
    /\ pc = "idle" /\ ret = "written" /\ yieldMask = 0
    /\ popped > 2
    /\ \E p \in Written : p + width \in Written

\* C11: while a fill is suspended and has not written back, no second fill
\* is started by another click: the canvas does not become anything but the
\* stored image that resetImage puts back.
C11_OneFillInFlight ==
    [][(pc = "await" /\ pc' = "await") => canvas' \in {canvas, originalImageData}]_vars

\* C12: a fill called with a tolerance below 0 or above 255 is rejected
\* before any work: it returns at once, no coordinate is put on the work list
\* or popped, no pixel is written and the canvas is not written.
C12_OutsideToleranceRejected ==
    (Called /\ (tol < 0 \/ tol > 255)) =>
        /\ pc = "idle" /\ ret # "written"
        /\ stack = <<>> /\ popped = 0
        /\ Written = {}

\* the coordinate that the next pass pops, and what that pass does
Top == stack[Len(stack)]
NextPass == Pass(data, target, tol, fillRgb, stack, width, height)

\* a pass is about to pop a coordinate
AtPop == pc = "loop" /\ stack # <<>>

\* pixel (xi, yi) of the buffer matches the target within the tolerance
MatchAt(xi, yi) == Matches(PixelAt(data, yi * width + xi), target, tol)

\* [xl, xr] is a maximal run of matching pixels of row yi that contains xi
MaximalSpan(xl, xr, xi, yi) ==
    /\ 0 <= xl /\ xl <= xi /\ xi <= xr /\ xr < width
    /\ \A c \in xl..xr : MatchAt(c, yi)
    /\ xl = 0 \/ ~MatchAt(xl - 1, yi)
    /\ xr = width - 1 \/ ~MatchAt(xr + 1, yi)

\* C13 as stated: for every popped coordinate (x, y) the span [xl, xr] of
\* the expansion is on row y, contains x, holds only matching pixels and is
\* maximal.
C13_SpanOfEveryPop ==
    AtPop => LET r == NextPass
             IN  /\ r.y = Top[2]
                 /\ MaximalSpan(r.xl, r.xr, Top[1], Top[2])

\* C13 amended: the same for every popped coordinate whose pixel matches the
\* target when it is popped; a popped coordinate whose pixel does not match
\* (it was filled by an earlier pass) gives the empty span xl = x + 1,
\* xr = x - 1, and the buffer is left as it is.
C13_SpanOfMatchingPop ==
    AtPop =>
        LET r == NextPass
        IN  /\ ~r.skip
            /\ r.y = Top[2]
            /\ IF MatchAt(Top[1], Top[2])
               THEN MaximalSpan(r.xl, r.xr, Top[1], Top[2])
               ELSE /\ r.xl = Top[1] + 1
                    /\ r.xr = Top[1] - 1
                    /\ r.data = data

\* a popped coordinate lies strictly inside its span, which ends at the last
\* column
C13_Witness ==
    /\ AtPop /\ MatchAt(Top[1], Top[2])
    /\ LET r == NextPass
       IN  r.xl < Top[1] /\ Top[1] < r.xr /\ r.xr = width - 1

\* the coordinates that a pass r pushes, in the order of the pushes
Pushes(r) == SubSeq(r.stack, Len(stack), Len(r.stack))

\* pixel (xi, yi) of the buffer d matches the target
MatchIn(d, xi, yi) == Matches(PixelAt(d, yi * width + xi), target, tol)

\* the maximal runs of matching pixels of a row of d within the columns
\* [xl, xr]
Runs(d, row, xl, xr) ==
    {run \in (xl..xr) \X (xl..xr) :
        /\ run[1] <= run[2]
        /\ \A c \in run[1]..run[2] : MatchIn(d, c, row)
        /\ run[1] = xl \/ ~MatchIn(d, run[1] - 1, row)
        /\ run[2] = xr \/ ~MatchIn(d, run[2] + 1, row)}

\* the pushes in the sequence p that are on a row
PushesOn(p, row) == {i \in 1..Len(p) : p[i][2] = row}

\* the rows next to row y that are on the canvas
RowsBy(y) == {row \in {y - 1, y + 1} : row >= 0 /\ row < height}

\* C14: the pass over a span [xl, xr] of row y pushes, for each of the rows
\* y-1 and y+1 that is on the canvas, one coordinate per maximal run of
\* matching pixels of that row within [xl, xr], the middle
\* (floor((runStart + runEnd) / 2), row) of the run; it pushes nothing for
\* a row off the canvas and nothing else.
C14_OnePushPerRun ==
    AtPop =>
        LET r == NextPass
            p == Pushes(r)
        IN  /\ \A i \in 1..Len(p) : p[i][2] \in RowsBy(r.y)
            /\ \A row \in RowsBy(r.y) :
                  LET runs == Runs(r.data, row, r.xl, r.xr)
                  IN  /\ {p[i] : i \in PushesOn(p, row)}
                            = {<<(run[1] + run[2]) \div 2, row>> : run \in runs}
                      /\ Cardinality(PushesOn(p, row)) = Cardinality(runs)

\* a pass pushes the middles of two runs of one row, and a run has three
\* pixels or more
C14_Witness ==
    AtPop /\
        LET r == NextPass
            p == Pushes(r)
        IN  /\ \E row \in RowsBy(r.y) : Cardinality(PushesOn(p, row)) = 2
            /\ \E row \in RowsBy(r.y) :
                  \E run \in Runs(r.data, row, r.xl, r.xr) : run[2] - run[1] >= 2

\* C15: when a fill writes back, every pixel outside the region it filled
\* keeps the value the canvas had just before the write-back, so that what
\* another handler put on the canvas while the fill was suspended stays.
C15_WriteBackKeepsOthers ==
    [][(pc = "loop" /\ pc' = "idle" /\ ret' = "written") =>
          \A p \in Pixels \ Written : PixelAt(canvas', p) = PixelAt(canvas, p)]_vars

\* C16: a fill writes the canvas once, at its end: the only step of a fill
\* that changes the canvas is the write-back of the buffer when the work
\* list is empty; until then the canvas is as the fill read it, whatever
\* the buffer holds; a fill that returns for an out-of-range seed or by the
\* shortcut leaves the canvas alone.
C16_CanvasWrittenAtEnd ==
    [][/\ canvas' # canvas =>
             /\ pc = "loop" /\ stack = <<>>
             /\ pc' = "idle" /\ ret' = "written"
             /\ canvas' = data
       /\ pc' # "idle" => canvas' = before'
       /\ (pc = "idle" /\ ret' \in {"range", "same"}) => canvas' = canvas]_vars

\* a suspended fill has filled a part of its buffer and the canvas is as it
\* was read
C16_Witness ==
    /\ pc = "await" /\ stack # <<>>
    /\ Written # {} /\ data # canvas
    /\ canvas = before

\* C17: a fill that has popped fewer than 1024 coordinates has never been
\* suspended, and no other handler has run since it read the canvas: the
\* canvas is as the fill read it until the fill writes back.
C17_ShortFillAtomic ==
    (pc # "idle" /\ popped < 1024) => (pc = "loop" /\ canvas = before)

\* a fill of several passes has written back without a suspension, on a
\* canvas that a reset had changed before
C17_Witness ==
    /\ pc = "idle" /\ ret = "written"
    /\ popped > 1 /\ popped < 1024
    /\ before = originalImageData /\ canvas # originalImageData

\* an offset is the first byte of a pixel of the buffer, on a given row
PixelOffset(o) == o >= 0 /\ o <= width * height * 4 - 4 /\ o % 4 = 0
OnRow(o, row) == PixelOffset(o) /\ o \div (4 * width) = row

\* C18: every offset that a pass tests for a match or writes is the offset
\* of a pixel of the buffer; the offsets of the expansions and of the filled
\* segment are on the popped row y, with 0 <= xl and xr < width, and those of
\* the two scans are on rows y-1 and y+1: no span runs over into another
\* row.
C18_AccessesInBounds ==
    AtPop =>
        LET r == NextPass
            o == offsetOf(Top[1], Top[2], width)
        IN  /\ \A a \in LeftTested(data, target, tol, Top[1], o) : OnRow(a, Top[2])
            /\ \A a \in RightTested(data, target, tol, Top[1], o, width) : OnRow(a, Top[2])
            /\ r.xl <= r.xr => (0 <= r.xl /\ r.xr < width)
            /\ \A a \in SegmentOffsets(r.xl, r.xr, r.y, width) : OnRow(a, Top[2])
            /\ \A row \in RowsBy(r.y) :
                  \A a \in SegmentOffsets(r.xl, r.xr, row, width) : OnRow(a, row)

\* a span takes a whole row of several pixels, below a row whose last pixel
\* matches the target
C18_Witness ==
    /\ AtPop /\ width > 1 /\ Top[2] > 0
    /\ MatchAt(width - 1, Top[2] - 1)
    /\ LET r == NextPass IN r.xl = 0 /\ r.xr = width - 1

\* C20: every coordinate on the work list is a pixel of the canvas, in every
\* state of a fill; so no popped coordinate is thrown away by the range
\* test of the loop, and as many coordinates are processed as are popped.
C20_WorkListInBounds ==
    /\ \A i \in 1..Len(stack) :
          /\ 0 <= stack[i][1] /\ stack[i][1] < width
          /\ 0 <= stack[i][2] /\ stack[i][2] < height
    /\ iterations = popped
    /\ AtPop => ~NextPass.skip

\* a fill is at its third pop or later with three coordinates on the work
\* list
C20_Witness ==
    /\ AtPop /\ popped >= 2
    /\ Len(stack) >= 3

\* the name ends, whatever the case of its letters, in the extension ext and
\* has a character before it
EndsIn(name, ext) ==
    /\ Len(name) > Len(ext)
    /\ \A i \in 1..Len(ext) :
          LET c == name[Len(name) - Len(ext) + i]
          IN  \/ c = ext[i]
              \/ \E k \in 1..26 : UpperCase[k] = c /\ LowerCase[k] = ext[i]

IsImageName(name) == \E i \in 1..Len(imageExtensions) : EndsIn(name, imageExtensions[i])

\* C19: the image listing returns the names of the directory whose
\* extension, whatever the case of its letters, is one of .png, .jpg, .jpeg,
\* .gif, .webp, .svg, all of them, no other and in the order of the
\* directory; when the directory cannot be read it returns a record with an
\* error and no list of images.
C19_ListingFiltersImages ==
    response # NoResponse =>
        IF directory.ok
        THEN /\ DOMAIN response = {"images"}
             /\ response.images = SelectSeq(directory.files, IsImageName)
        ELSE /\ DOMAIN response = {"error", "details"}
             /\ response.error = "Failed to read directory"
             /\ response.details = directory.message

\* a listing of a name in capitals and a name without an image extension
\* has been answered with the first of them
C19_Witness ==
    /\ response # NoResponse /\ directory.ok
    /\ Len(directory.files) = 2
    /\ Len(response.images) = 1
    /\ \E i \in 1..Len(response.images[1]) : response.images[1][i] = "G"

====
